---- MODULE Spec2Model ----
(***************************************************************************)
(* Model of scripts/python/populate_geolocation.py: the ZipCache class,    *)
(* fetch_zip_coordinates and the orchestration in main().                  *)
(*                                                                         *)
(* Data representation                                                     *)
(*   - a Python str is a sequence of one-character strings, so that the    *)
(*     slice zip_code[:5] and str.isdigit() are computed, not assumed;     *)
(*   - Python None is the value None below; it differs from every str and  *)
(*     from every coordinate tuple;                                        *)
(*   - a float is an integer number of hundredths of a degree;             *)
(*   - a Python dict is a sequence of <<key, value>> pairs in insertion    *)
(*     order with pairwise distinct keys.                                  *)
(***************************************************************************)
EXTENDS Integers, Sequences, FiniteSets, TLC

(***************************************************************************)
(* Bounds of the model.                                                    *)
(***************************************************************************)
MaxCands == 3        \* most candidates the discovery query returns over the runs modelled
MaxRowcount == 1     \* largest cursor.rowcount reported by one UPDATE
MaxCalls == 2        \* most set / save / constructor / update calls a client makes
MaxRows == 2         \* most rows in the table

(***************************************************************************)
(* Python values.                                                          *)
(***************************************************************************)
None == <<"None">>
EmptyStr == <<>>

\* Python truthiness of the values the script tests with `if x:` : None and
\* the empty str are false, a non-empty str and a 2-tuple are true.
Truthy(v) == v # None /\ v # EmptyStr

Digits == {"0", "1", "2", "3", "4", "5", "6", "7", "8", "9"}

\* str.isdigit(): at least one character and every character a digit.
isdigit(s) == Len(s) > 0 /\ \A j \in 1..Len(s) : s[j] \in Digits

\* the slice s[:n]
Slice(s, n) == SubSeq(s, 1, IF Len(s) < n THEN Len(s) ELSE n)

\* zip5 = zip_code[:5] if zip_code else None
zip5_of(zip_code) == IF Truthy(zip_code) THEN Slice(zip_code, 5) ELSE None

(***************************************************************************)
(* Postal codes the discovery query may return and callers may pass.       *)
(***************************************************************************)
Z_empty == EmptyStr
Z_short == <<"1", "2", "3", "4">>
Z_90210 == <<"9", "0", "2", "1", "0">>
Z_00000 == <<"0", "0", "0", "0", "0">>
Z_plus4 == <<"9", "0", "2", "1", "0", "-", "1", "2", "3", "4">>
Z_alpha == <<"9", "0", "2", "1", "a">>

Codes == {Z_empty, Z_short, Z_90210, Z_00000, Z_plus4, Z_alpha}

\* coordinates in hundredths of a degree
Coord_BH == <<3409, -11841>>
Coord_00 == <<0, 0>>
Coords == {Coord_BH, Coord_00}

(***************************************************************************)
(* Python dict as an insertion-ordered sequence of <<key, value>> pairs.   *)
(***************************************************************************)
EmptyDict == <<>>
Keys(d) == {d[j][1] : j \in DOMAIN d}
Lookup(d, k) == d[CHOOSE j \in DOMAIN d : d[j][1] = k][2]
\* d[k] = v
Put(d, k, v) ==
    IF k \in Keys(d)
    THEN [j \in DOMAIN d |-> IF d[j][1] = k THEN <<k, v>> ELSE d[j]]
    ELSE Append(d, <<k, v>>)

(***************************************************************************)
(* ZipCache.get / set / has on the dict self.cache.                        *)
(***************************************************************************)
get(self, zip_code) ==
    LET zip5 == zip5_of(zip_code)
    IN  IF Truthy(zip5) /\ zip5 \in Keys(self) THEN Lookup(self, zip5) ELSE None

\* variant of set: the entry is stored under the code as passed
set_raw(self, zip_code, coords) ==
    LET zip5 == zip5_of(zip_code)
    IN  IF Truthy(zip5) THEN Put(self, zip_code, coords) ELSE self

\* variant of set: only a resolved coordinate is stored
set_positive_only(self, zip_code, coords) ==
    LET zip5 == zip5_of(zip_code)
    IN  IF Truthy(zip5) /\ Truthy(coords) THEN Put(self, zip5, coords) ELSE self

set(self, zip_code, coords) ==
    LET zip5 == zip5_of(zip_code)
    IN  IF Truthy(zip5) THEN Put(self, zip5, coords) ELSE self

\* variant of has: an entry counts only when it holds a coordinate
has_positive(self, zip_code) == get(self, zip_code) # None

has(self, zip_code) ==
    LET zip5 == zip5_of(zip_code)
    IN  IF Truthy(zip5) THEN zip5 \in Keys(self) ELSE FALSE

(***************************************************************************)
(* JSON documents as json.load returns them (or fails to).  The top-level  *)
(* object keeps the order of its members; a coordinate record is an object *)
(* whose members are numbers.                                              *)
(***************************************************************************)
JInvalid == [t |-> "invalid"]                 \* text that is not JSON
JNull == [t |-> "null"]
JNum(n) == [t |-> "num", n |-> n]
JList == [t |-> "list"]                       \* a top-level JSON array
JObj(members) == [t |-> "obj", o |-> members]

\* truthiness of a parsed JSON value (`if coords:` in load)
JTruthy(v) ==
    CASE v.t = "null" -> FALSE
      [] v.t = "num"  -> v.n # 0
      [] v.t = "obj"  -> v.o # EmptyDict
      [] OTHER        -> TRUE

\* variant of CoordRecord: the two fields are exchanged
CoordRecord_swapped(coords) == JObj(<< <<"lat", coords[2]>>, <<"lng", coords[1]>> >>)

\* {'lat': coords[0], 'lng': coords[1]}
CoordRecord(coords) == JObj(<< <<"lat", coords[1]>>, <<"lng", coords[2]>> >>)

\* the cache file: absent, or present with some content
NoFile == [exists |-> FALSE, data |-> JNull]
FileOf(data) == [exists |-> TRUE, data |-> data]

F_invalid == FileOf(JInvalid)
F_list == FileOf(JList)
F_valid == FileOf(JObj(<< <<Z_90210, CoordRecord(Coord_BH)>>, <<Z_00000, JNull>> >>))
F_longkey == FileOf(JObj(<< <<Z_plus4, JNull>> >>))
F_badvalue == FileOf(JObj(<< <<Z_00000, JObj(EmptyDict)>>, <<Z_short, JNum(5)>>,
                             <<Z_90210, CoordRecord(Coord_00)>> >>))

\* a negative entry written as the number 0 instead of null
F_zero == FileOf(JObj(<< <<Z_short, CoordRecord(Coord_BH)>>, <<Z_alpha, JNum(0)>> >>))

Files == {NoFile, F_invalid, F_list, F_valid, F_longkey, F_badvalue, F_zero}

(***************************************************************************)
(* ZipCache.load: the loop over data.items() runs inside one try block, so *)
(* an exception leaves the entries stored before it in self.cache.         *)
(***************************************************************************)
RECURSIVE load_items(_, _, _)
load_items(self, items, j) ==
    IF j > Len(items) THEN self
    ELSE LET zip_code == items[j][1]
             coords == items[j][2]
         IN  IF JTruthy(coords)
             THEN IF coords.t = "obj" /\ {"lat", "lng"} \subseteq Keys(coords.o)
                  THEN load_items(Put(self, zip_code,
                                      <<Lookup(coords.o, "lat"), Lookup(coords.o, "lng")>>),
                                  items, j + 1)
                  ELSE self          \* TypeError / KeyError, caught at line 69
             ELSE load_items(Put(self, zip_code, None), items, j + 1)

load(self, f) ==
    IF ~f.exists THEN self
    ELSE IF f.data.t # "obj" THEN self   \* json.load or data.items() raises
    ELSE load_items(self, f.data.o, 1)

(***************************************************************************)
(* ZipCache.save: the document written to the cache file.                  *)
(***************************************************************************)
\* variant of save_items: entries without a coordinate are left out
RECURSIVE save_items_positive(_, _)
save_items_positive(self, j) ==
    IF j > Len(self) THEN EmptyDict
    ELSE LET zip_code == self[j][1]
             coords == self[j][2]
         IN  (IF Truthy(coords) THEN << <<zip_code, CoordRecord(coords)>> >> ELSE EmptyDict)
             \o save_items_positive(self, j + 1)

RECURSIVE save_items(_, _)
save_items(self, j) ==
    IF j > Len(self) THEN EmptyDict
    ELSE LET zip_code == self[j][1]
             coords == self[j][2]
         IN  << <<zip_code, IF Truthy(coords) THEN CoordRecord(coords) ELSE JNull>> >>
             \o save_items(self, j + 1)

save(self) == FileOf(JObj(save_items(self, 1)))

(***************************************************************************)
(* The lookup service.  A response is what requests.get does: it raises    *)
(* (timeout, transport error) or returns a status code and a body.         *)
(***************************************************************************)
Place(lat, lng) == [latitude |-> lat, longitude |-> lng]
Response(raises, status, json, has_places, places) ==
    [raises |-> raises, status_code |-> status, json |-> json,
     has_places |-> has_places, places |-> places]

R_timeout == Response(TRUE, 0, FALSE, FALSE, <<>>)
R_404 == Response(FALSE, 404, TRUE, FALSE, <<>>)
R_notjson == Response(FALSE, 200, FALSE, FALSE, <<>>)
R_noplaces == Response(FALSE, 200, TRUE, FALSE, <<>>)
R_emptyplaces == Response(FALSE, 200, TRUE, TRUE, <<>>)
R_ok == Response(FALSE, 200, TRUE, TRUE, <<Place("34.09", "-118.41")>>)
R_ok2 == Response(FALSE, 200, TRUE, TRUE, <<Place("0.0", "0.0"), Place("34.09", "-118.41")>>)
R_badnum == Response(FALSE, 200, TRUE, TRUE, <<Place("n/a", "-118.41")>>)

\* the responses that are a lookup failure: timeout or transport error,
\* non-success status, body that does not parse, no or empty result set,
\* coordinate that does not parse
FailedLookups == {R_timeout, R_404, R_notjson, R_noplaces, R_emptyplaces, R_badnum}

Responses == {R_timeout, R_404, R_notjson, R_noplaces, R_emptyplaces, R_ok, R_ok2, R_badnum}

\* float(s): the strings float() accepts, and their value in hundredths;
\* on any other string float() raises ValueError
IsNumeric(s) == s \in {"34.09", "-118.41", "0.0"}
float(s) ==
    CASE s = "34.09"   -> 3409
      [] s = "-118.41" -> -11841
      [] s = "0.0"     -> 0

\* variant of parse_response: a result set without places gives (0.0, 0.0)
parse_response_default(response) ==
    IF response.raises THEN None
    ELSE IF response.status_code # 200 THEN None
    ELSE IF ~response.json THEN None
    ELSE IF response.has_places /\ Len(response.places) > 0
         THEN LET place == response.places[1]
              IN  IF IsNumeric(place.latitude) /\ IsNumeric(place.longitude)
                  THEN <<float(place.latitude), float(place.longitude)>>
                  ELSE None
         ELSE <<0, 0>>

\* lines 116-134: the value returned once the request has been issued
parse_response(response) ==
    IF response.raises THEN None
    ELSE IF response.status_code # 200 THEN None
    ELSE IF ~response.json THEN None
    ELSE IF response.has_places /\ Len(response.places) > 0
         THEN LET place == response.places[1]
              IN  IF IsNumeric(place.latitude) /\ IsNumeric(place.longitude)
                  THEN <<float(place.latitude), float(place.longitude)>>
                  ELSE None          \* ValueError, caught at line 132
         ELSE None

\* fetch_zip_coordinates: ret is the returned value, request the code the
\* GET was issued for (None when no request was issued)
fetch_zip_coordinates(zip_code, response) ==
    LET zip5 == zip5_of(zip_code)
    IN  IF ~Truthy(zip5) \/ ~isdigit(zip5)
        THEN [ret |-> None, request |-> None]
        ELSE [ret |-> parse_response(response), request |-> zip5]

(***************************************************************************)
(* State of one run of main().                                             *)
(***************************************************************************)
VARIABLES
    pc,               \* position of main()
    file,             \* content of CONFIG['cache_file']
    cache,            \* ZipCache.cache
    conn,             \* the pyodbc connection: "none", "open", "closed"
    cursor,           \* its cursor: "none", "open", "closed"
    zips_to_process,  \* result of get_zips_needing_coordinates
    i,                \* 0-based index of the loop of line 272
    coords,           \* local variable coords of the loop body
    updated_total, found, not_found, from_cache, from_api,
    raised,           \* an exception is propagating out of main()
    committed,        \* conn.commit() of line 298 has succeeded
    saved,            \* cache.save() of line 302 has been executed
    fetchlog,         \* history: the calls of fetch_zip_coordinates
    setlog,           \* history: the calls of cache.set
    updlog,           \* history: the calls of update_geolocation
    cache0,           \* history: self.cache as the constructor left it
    call,             \* history: the last call made on the ZipCache by a client
    ncalls,           \* history: number of client calls that changed cache or file
    earlier,          \* history: the runs of main() that ended before this one
    table             \* the rows of CONFIG['table_name']: ZipCode and GeoLocation

vars == <<pc, file, cache, conn, cursor, zips_to_process, i, coords,
          updated_total, found, not_found, from_cache, from_api,
          raised, committed, saved, fetchlog, setlog, updlog, cache0, call, ncalls, earlier, table>>

stats == <<updated_total, found, not_found, from_cache, from_api>>
logs == <<fetchlog, setlog, updlog>>
NoCall == [op |-> "none"]

\* candidate lists the cursor may hand back
RECURSIVE ListsUpTo(_)
ListsUpTo(n) ==
    IF n = 0 THEN {<<>>}
    ELSE LET shorter == ListsUpTo(n - 1)
         IN  shorter \cup {Append(l, z) : l \in {s \in shorter : Len(s) = n - 1}, z \in Codes}

\* number of candidates the earlier runs have been given
RECURSIVE GivenBefore(_)
GivenBefore(runs) ==
    IF runs = <<>> THEN 0 ELSE Len(Head(runs).zips_to_process) + GivenBefore(Tail(runs))

CandidateLists == ListsUpTo(MaxCands)

Init ==
    /\ pc = "load"
    /\ file \in Files
    /\ cache = EmptyDict
    /\ conn = "none"
    /\ cursor = "none"
    /\ zips_to_process = <<>>
    /\ i = 0
    /\ coords = None
    /\ updated_total = 0 /\ found = 0 /\ not_found = 0
    /\ from_cache = 0 /\ from_api = 0
    /\ raised = FALSE
    /\ committed = FALSE
    /\ saved = FALSE
    /\ fetchlog = <<>>
    /\ setlog = <<>>
    /\ updlog = <<>>
    /\ cache0 = EmptyDict
    /\ call = NoCall
    /\ ncalls = 0
    /\ earlier = <<>>
    /\ table = <<>>

\* line 237: cache = ZipCache(CONFIG['cache_file'])
LoadCache ==
    /\ pc = "load"
    /\ cache' = load(cache, file)
    /\ cache0' = cache'
    /\ pc' = "connect"
    /\ UNCHANGED <<file, conn, cursor, zips_to_process, i, coords, stats,
                   raised, committed, saved, logs, call, ncalls, earlier, table>>

\* lines 241-247: get_connection() and conn.cursor(); a failure of either
\* is reported and main() returns
Connect ==
    /\ pc = "connect"
    /\ \E outcome \in {"ok", "connect_fails", "cursor_fails"} :
         /\ conn' = IF outcome = "connect_fails" THEN "none" ELSE "open"
         /\ cursor' = IF outcome = "ok" THEN "open" ELSE "none"
         /\ pc' = IF outcome = "ok" THEN "ensure_column" ELSE "done"
    /\ UNCHANGED <<file, cache, zips_to_process, i, coords, stats,
                   raised, committed, saved, logs, cache0, call, ncalls, earlier, table>>

\* line 251: ensure_geolocation_column(cursor)
EnsureColumn ==
    /\ pc = "ensure_column"
    /\ \E ok \in BOOLEAN :
         /\ pc' = IF ok THEN "ensure_index" ELSE "finally"
         /\ raised' = ~ok
    /\ UNCHANGED <<file, cache, conn, cursor, zips_to_process, i, coords, stats,
                   committed, saved, logs, cache0, call, ncalls, earlier, table>>

\* line 252: ensure_spatial_index(cursor)
EnsureIndex ==
    /\ pc = "ensure_index"
    /\ \E ok \in BOOLEAN :
         /\ pc' = IF ok THEN "discover" ELSE "finally"
         /\ raised' = ~ok
    /\ UNCHANGED <<file, cache, conn, cursor, zips_to_process, i, coords, stats,
                   committed, saved, logs, cache0, call, ncalls, earlier, table>>

\* variant of Discover: without the early return of lines 260-262
Discover_no_early_return ==
    /\ pc = "discover"
    /\ \/ /\ pc' = "finally"
          /\ raised' = TRUE
          /\ UNCHANGED zips_to_process
       \/ \E rows \in CandidateLists :
            /\ Len(rows) + GivenBefore(earlier) <= MaxCands
            /\ zips_to_process' = rows
            /\ pc' = IF rows = <<>> THEN "commit" ELSE "resolve"
            /\ UNCHANGED raised
    /\ UNCHANGED <<file, cache, conn, cursor, i, coords, stats,
                   committed, saved, logs, cache0, call, ncalls, earlier, table>>

\* lines 257-270: the discovery query; an empty list returns at line 262
Discover ==
    /\ pc = "discover"
    /\ \/ /\ pc' = "finally"
          /\ raised' = TRUE
          /\ UNCHANGED zips_to_process
       \/ \E rows \in CandidateLists :
            /\ Len(rows) + GivenBefore(earlier) <= MaxCands
            /\ zips_to_process' = rows
            /\ pc' = IF rows = <<>> THEN "finally" ELSE "resolve"
            /\ UNCHANGED raised
    /\ UNCHANGED <<file, cache, conn, cursor, i, coords, stats,
                   committed, saved, logs, cache0, call, ncalls, earlier, table>>

\* lines 272-282: the cache / lookup half of one loop iteration
Resolve ==
    /\ pc = "resolve"
    /\ LET zip_code == zips_to_process[i + 1]
           cached == get(cache, zip_code)
       IN  IF Truthy(cached)
           THEN /\ coords' = cached
                /\ from_cache' = from_cache + 1
                /\ UNCHANGED <<cache, from_api, fetchlog, setlog>>
           ELSE IF ~has(cache, zip_code)
           THEN \E response \in Responses :
                  LET fetched == fetch_zip_coordinates(zip_code, response)
                  IN  /\ coords' = fetched.ret
                      /\ cache' = set(cache, zip_code, fetched.ret)
                      /\ from_api' = from_api + 1
                      /\ fetchlog' = Append(fetchlog,
                                            [zip_code |-> zip_code, ret |-> fetched.ret,
                                             request |-> fetched.request,
                                             failed |-> fetched.request # None
                                                        /\ response \in FailedLookups])
                      /\ setlog' = Append(setlog,
                                          [zip_code |-> zip_code, coords |-> fetched.ret])
                      /\ UNCHANGED from_cache
           ELSE /\ coords' = cached
                /\ UNCHANGED <<cache, from_cache, from_api, fetchlog, setlog>>
    /\ pc' = "apply"
    /\ UNCHANGED <<file, conn, cursor, zips_to_process, i, updated_total, found,
                   not_found, raised, committed, saved, updlog, cache0, call, ncalls, earlier, table>>

\* variant of Apply: found is incremented before update_geolocation is called
Apply_counts_first ==
    /\ pc = "apply"
    /\ LET zip_code == zips_to_process[i + 1]
           next_pc == IF i + 1 = Len(zips_to_process) THEN "commit" ELSE "resolve"
       IN  IF Truthy(coords)
           THEN /\ updlog' = Append(updlog, [zip_code |-> zip_code,
                                             lat |-> coords[1], lng |-> coords[2]])
                /\ found' = found + 1
                /\ \/ /\ raised' = TRUE
                      /\ pc' = "finally"
                      /\ UNCHANGED <<i, updated_total>>
                   \/ \E rows_updated \in 0..MaxRowcount :
                        /\ updated_total' = updated_total + rows_updated
                        /\ i' = i + 1
                        /\ pc' = next_pc
                        /\ UNCHANGED raised
                /\ UNCHANGED not_found
           ELSE /\ not_found' = not_found + 1
                /\ i' = i + 1
                /\ pc' = next_pc
                /\ UNCHANGED <<updated_total, found, raised, updlog>>
    /\ UNCHANGED <<file, cache, conn, cursor, zips_to_process, coords,
                   from_cache, from_api, committed, saved, fetchlog, setlog, cache0, call, ncalls, earlier, table>>

\* lines 284-290 and the advance of the loop: the store half of the iteration;
\* update_geolocation returns cursor.rowcount or raises
Apply ==
    /\ pc = "apply"
    /\ LET zip_code == zips_to_process[i + 1]
           next_pc == IF i + 1 = Len(zips_to_process) THEN "commit" ELSE "resolve"
       IN  IF Truthy(coords)
           THEN /\ updlog' = Append(updlog, [zip_code |-> zip_code,
                                             lat |-> coords[1], lng |-> coords[2]])
                /\ \/ /\ raised' = TRUE
                      /\ pc' = "finally"
                      /\ UNCHANGED <<i, updated_total, found>>
                   \/ \E rows_updated \in 0..MaxRowcount :
                        /\ updated_total' = updated_total + rows_updated
                        /\ found' = found + 1
                        /\ i' = i + 1
                        /\ pc' = next_pc
                        /\ UNCHANGED raised
                /\ UNCHANGED not_found
           ELSE /\ not_found' = not_found + 1
                /\ i' = i + 1
                /\ pc' = next_pc
                /\ UNCHANGED <<updated_total, found, raised, updlog>>
    /\ UNCHANGED <<file, cache, conn, cursor, zips_to_process, coords,
                   from_cache, from_api, committed, saved, fetchlog, setlog, cache0, call, ncalls, earlier, table>>

\* variant of Commit: a failure of conn.commit() is swallowed
Commit_swallowed ==
    /\ pc = "commit"
    /\ \E ok \in BOOLEAN :
         /\ committed' = ok
         /\ pc' = "save"
    /\ UNCHANGED <<file, cache, conn, cursor, zips_to_process, i, coords, stats,
                   raised, saved, logs, cache0, call, ncalls, earlier, table>>

\* line 298: conn.commit()
Commit ==
    /\ pc = "commit"
    /\ \E ok \in BOOLEAN :
         /\ committed' = ok
         /\ raised' = ~ok
         /\ pc' = IF ok THEN "save" ELSE "finally"
    /\ UNCHANGED <<file, cache, conn, cursor, zips_to_process, i, coords, stats,
                   saved, logs, cache0, call, ncalls, earlier, table>>

\* lines 302-315: cache.save() and the summary
Save ==
    /\ pc = "save"
    /\ file' = save(cache)
    /\ saved' = TRUE
    /\ pc' = "finally"
    /\ UNCHANGED <<cache, conn, cursor, zips_to_process, i, coords, stats,
                   raised, committed, logs, cache0, call, ncalls, earlier, table>>

\* lines 317-320: cursor.close() then conn.close(); when cursor.close()
\* raises, conn.close() is not reached
Finally ==
    /\ pc = "finally"
    /\ \E close_ok \in BOOLEAN :
         /\ cursor' = IF close_ok THEN "closed" ELSE cursor
         /\ conn' = IF close_ok THEN "closed" ELSE conn
         /\ raised' = IF close_ok THEN raised ELSE TRUE
    /\ pc' = "done"
    /\ UNCHANGED <<file, cache, zips_to_process, i, coords, stats,
                   committed, saved, logs, cache0, call, ncalls, earlier, table>>

Next ==
    \/ LoadCache
    \/ Connect
    \/ EnsureColumn
    \/ EnsureIndex
    \/ Discover
    \/ Resolve
    \/ Apply
    \/ Commit
    \/ Save
    \/ Finally

Spec == Init /\ [][Next]_vars

TypeOK ==
    /\ pc \in {"client", "store", "load", "connect", "ensure_column", "ensure_index", "discover",
               "resolve", "apply", "commit", "save", "finally", "done"}
    /\ i \in 0..MaxCands
    /\ found + not_found <= MaxCands

(***************************************************************************)
(* Two consecutive runs of the script on the same cache file: after a run  *)
(* has ended, the script is started once more (lines 323-324).  The new    *)
(* process shares nothing with the old one but the cache file.             *)
(***************************************************************************)
Rerun ==
    /\ pc = "done"
    /\ earlier = <<>>
    /\ earlier' = <<[zips_to_process |-> zips_to_process, saved |-> saved,
                     fetchlog |-> fetchlog]>>
    /\ pc' = "load"
    /\ cache' = EmptyDict
    /\ conn' = "none"
    /\ cursor' = "none"
    /\ zips_to_process' = <<>>
    /\ i' = 0
    /\ coords' = None
    /\ updated_total' = 0 /\ found' = 0 /\ not_found' = 0
    /\ from_cache' = 0 /\ from_api' = 0
    /\ raised' = FALSE
    /\ committed' = FALSE
    /\ saved' = FALSE
    /\ fetchlog' = <<>>
    /\ setlog' = <<>>
    /\ updlog' = <<>>
    /\ cache0' = EmptyDict
    /\ UNCHANGED <<file, call, ncalls, table>>

NextRuns ==
    \/ Next
    \/ Rerun

\* the first of the two runs finds no cache file
InitRuns == Init /\ file = NoFile

SpecRuns == InitRuns /\ [][NextRuns]_vars

(***************************************************************************)
(* The table as the UPDATE statement of update_geolocation sees it: each   *)
(* row has a ZipCode (a str or NULL) and a GeoLocation (a point or NULL);  *)
(* NULL is None.  The statement sets the point on the rows                 *)
(* WHERE ZipCode = ? AND GeoLocation IS NULL, and rowcount is their number.*)
(***************************************************************************)
Row(zip, geo) == [ZipCode |-> zip, GeoLocation |-> geo]

\* variant of Matches: the statement without `AND GeoLocation IS NULL`
Matches_any_geolocation(row, zip_code) ==
    row.ZipCode # None /\ row.ZipCode = zip_code

\* the WHERE clause; a comparison with NULL is never true
Matches(row, zip_code) ==
    row.ZipCode # None /\ row.ZipCode = zip_code /\ row.GeoLocation = None

\* update_geolocation(cursor, zip_code, lat, lng): the table after the
\* statement and the returned cursor.rowcount
update_geolocation(rows, zip_code, lat, lng) ==
    [table |-> [r \in DOMAIN rows |->
                   IF Matches(rows[r], zip_code)
                   THEN Row(rows[r].ZipCode, <<lat, lng>>) ELSE rows[r]],
     rowcount |-> Cardinality({r \in DOMAIN rows : Matches(rows[r], zip_code)})]

RowValues == {Row(zip, geo) : zip \in Codes \cup {None}, geo \in Coords \cup {None}}

RECURSIVE TablesUpTo(_)
TablesUpTo(n) ==
    IF n = 0 THEN {<<>>}
    ELSE LET smaller == TablesUpTo(n - 1)
         IN  smaller \cup {Append(t, row) : t \in {s \in smaller : Len(s) = n - 1},
                                             row \in RowValues}

InitStore ==
    /\ pc = "store"
    /\ table \in TablesUpTo(MaxRows)
    /\ file = NoFile
    /\ cache = EmptyDict
    /\ cache0 = EmptyDict
    /\ call = NoCall
    /\ ncalls = 0
    /\ earlier = <<>>
    /\ conn = "none"
    /\ cursor = "open"
    /\ zips_to_process = <<>>
    /\ i = 0
    /\ coords = None
    /\ updated_total = 0 /\ found = 0 /\ not_found = 0
    /\ from_cache = 0 /\ from_api = 0
    /\ raised = FALSE
    /\ committed = FALSE
    /\ saved = FALSE
    /\ fetchlog = <<>>
    /\ setlog = <<>>
    /\ updlog = <<>>

\* one call of update_geolocation on an open cursor
StoreUpdate ==
    /\ pc = "store"
    /\ ncalls < MaxCalls
    /\ \E zip_code \in Codes, point \in Coords :
         LET done == update_geolocation(table, zip_code, point[1], point[2])
         IN  /\ table' = done.table
             /\ call' = [op |-> "update", zip_code |-> zip_code, coords |-> point,
                         ret |-> done.rowcount, before |-> table]
    /\ ncalls' = ncalls + 1
    /\ UNCHANGED <<pc, file, cache, cache0, conn, cursor, zips_to_process, i, coords,
                   stats, raised, committed, saved, logs, earlier>>

NextStore == StoreUpdate

SpecStore == InitStore /\ [][NextStore]_vars

(***************************************************************************)
(* A ZipCache used by an arbitrary client: the constructor has run on some *)
(* cache file, then get / set / has / save are called in any order, and a  *)
(* fresh instance may be constructed on the same file.                     *)
(***************************************************************************)
CacheValues == Coords \cup {None}

main_state == <<conn, cursor, zips_to_process, i, coords, stats, raised,
                committed, saved, fetchlog, updlog, earlier, table>>

InitCache ==
    /\ pc = "client"
    /\ file \in Files
    /\ cache = load(EmptyDict, file)
    /\ cache0 = cache
    /\ call = NoCall
    /\ ncalls = 0
    /\ earlier = <<>>
    /\ table = <<>>
    /\ conn = "none"
    /\ cursor = "none"
    /\ zips_to_process = <<>>
    /\ i = 0
    /\ coords = None
    /\ updated_total = 0 /\ found = 0 /\ not_found = 0
    /\ from_cache = 0 /\ from_api = 0
    /\ raised = FALSE
    /\ committed = FALSE
    /\ saved = FALSE
    /\ fetchlog = <<>>
    /\ setlog = <<>>
    /\ updlog = <<>>

\* cache.set(zip_code, value)
CacheSet ==
    /\ pc = "client"
    /\ ncalls < MaxCalls
    /\ \E zip_code \in Codes, value \in CacheValues :
         /\ cache' = set(cache, zip_code, value)
         /\ setlog' = Append(setlog, [zip_code |-> zip_code, coords |-> value])
         /\ call' = [op |-> "set", zip_code |-> zip_code]
    /\ ncalls' = ncalls + 1
    /\ UNCHANGED <<pc, file, cache0, main_state>>

\* cache.get(zip_code)
CacheGet ==
    /\ pc = "client"
    /\ \E zip_code \in Codes :
         call' = [op |-> "get", zip_code |-> zip_code, ret |-> get(cache, zip_code)]
    /\ UNCHANGED <<pc, file, cache, cache0, setlog, ncalls, main_state>>

\* cache.has(zip_code)
CacheHas ==
    /\ pc = "client"
    /\ \E zip_code \in Codes :
         call' = [op |-> "has", zip_code |-> zip_code, ret |-> has(cache, zip_code)]
    /\ UNCHANGED <<pc, file, cache, cache0, setlog, ncalls, main_state>>

\* cache.save()
CacheSave ==
    /\ pc = "client"
    /\ ncalls < MaxCalls
    /\ file' = save(cache)
    /\ call' = [op |-> "save"]
    /\ ncalls' = ncalls + 1
    /\ UNCHANGED <<pc, cache, cache0, setlog, main_state>>

\* ZipCache(cache_file): a fresh instance on the same file
CacheReopen ==
    /\ pc = "client"
    /\ ncalls < MaxCalls
    /\ cache' = load(EmptyDict, file)
    /\ cache0' = cache'
    /\ setlog' = <<>>
    /\ call' = [op |-> "init"]
    /\ ncalls' = ncalls + 1
    /\ UNCHANGED <<pc, file, main_state>>

NextCache ==
    \/ CacheSet
    \/ CacheGet
    \/ CacheHas
    \/ CacheSave
    \/ CacheReopen

SpecCache == InitCache /\ [][NextCache]_vars

(***************************************************************************)
(* Vocabulary of the properties.                                           *)
(***************************************************************************)
\* the normalized form of a postal code: its first 5 characters
Normalized(zip_code) == Slice(zip_code, 5)

\* the normalized form is exactly 5 digit characters
ValidCode(zip_code) == Len(Normalized(zip_code)) = 5 /\ isdigit(Normalized(zip_code))

\* number of network requests issued for the code k during the run
Requests(k) == Cardinality({j \in DOMAIN fetchlog : fetchlog[j].request = k})

\* the candidates whose loop iteration has run its cache / lookup half
Processed == IF pc \in {"apply"} THEN 1..(i + 1) ELSE 1..i

LoopStarted == Len(zips_to_process) > 0

(***************************************************************************)
(* C1: in every run of main() whose processing loop has started, the cache *)
(* has been persisted (ZipCache.save executed) when the run ends, also     *)
(* when update_geolocation or the commit fails.                            *)
(***************************************************************************)
C1_CachePersistedOnEveryExit ==
    (pc = "done" /\ LoopStarted) => saved

(***************************************************************************)
(* C2: a call of fetch_zip_coordinates whose argument does not normalize   *)
(* to exactly 5 digits returns None and issues no network request.         *)
(***************************************************************************)
C2_NoRequestUnlessFiveDigits ==
    \A j \in DOMAIN fetchlog :
        ~ValidCode(fetchlog[j].zip_code)
            => (fetchlog[j].ret = None /\ fetchlog[j].request = None)

(***************************************************************************)
(* C3: a candidate whose normalized code has a negative cache entry counts *)
(* as a cache hit (from_cache is incremented) and as not-found, with no    *)
(* network call, no lookup-attempt count and no update_geolocation call.   *)
(***************************************************************************)
NegativeEntry(self, zip_code) == has(self, zip_code) /\ get(self, zip_code) = None

C3_NegativeEntryCountsAsCacheHit ==
    [][ /\ (pc = "resolve" /\ NegativeEntry(cache, zips_to_process[i + 1]))
            => /\ from_cache' = from_cache + 1
               /\ from_api' = from_api
               /\ fetchlog' = fetchlog
        /\ (pc = "apply" /\ NegativeEntry(cache, zips_to_process[i + 1]) /\ coords = None)
            => /\ not_found' = not_found + 1
               /\ updlog' = updlog ]_vars

(***************************************************************************)
(* C4: the scenario ["90210", "00000", "90210"] on an empty cache, "90210" *)
(* resolving to a coordinate and "00000" to no result.                     *)
(***************************************************************************)
Scenario == <<Z_90210, Z_00000, Z_90210>>

ScenarioRan ==
    /\ pc = "done"
    /\ saved
    /\ cache0 = EmptyDict
    /\ zips_to_process = Scenario
    /\ \A j \in DOMAIN fetchlog :
         /\ fetchlog[j].zip_code = Z_90210 => fetchlog[j].ret \in Coords
         /\ fetchlog[j].zip_code = Z_00000 => fetchlog[j].ret = None

ScenarioCalls ==
    /\ Requests(Z_90210) = 1
    /\ Requests(Z_00000) = 1
    /\ from_api = 2

ScenarioCache ==
    /\ file = save(cache)
    /\ Len(cache) = 2
    /\ Keys(cache) = {Z_90210, Z_00000}
    /\ Lookup(cache, Z_90210) \in Coords
    /\ Lookup(cache, Z_00000) = None

\* C4 as stated: the final statistics show 1 found and 1 not-found
C4_ScenarioAsStated ==
    ScenarioRan => (ScenarioCalls /\ found = 1 /\ not_found = 1 /\ ScenarioCache)

\* C4 amended: found and not_found count candidates, so the second
\* occurrence of "90210", served from the cache, is counted as found again:
\* 2 lookups, 2 found, 1 not-found, 1 cache hit, 2 cache entries persisted
C4_Scenario ==
    ScenarioRan => (ScenarioCalls /\ found = 2 /\ not_found = 1 /\ from_cache = 1
                    /\ ScenarioCache)

C4_Witness == ScenarioRan /\ found = 2

(***************************************************************************)
(* C5: once set(code, X) has been called, get(code) on the same instance   *)
(* returns exactly X until another set for the same normalized code.       *)
(***************************************************************************)
\* the set() calls of this instance made with the code zip_code and not
\* followed by a set() for the same normalized code
StandingSets(zip_code) ==
    {j \in DOMAIN setlog :
        /\ setlog[j].zip_code = zip_code
        /\ \A k \in DOMAIN setlog :
             k > j => Normalized(setlog[k].zip_code) # Normalized(zip_code)}

\* C5 as stated: for all postal codes
C5_GetReturnsSetValueAsStated ==
    call.op = "get"
        => \A j \in StandingSets(call.zip_code) : call.ret = setlog[j].coords

\* C5 amended: for all non-empty postal codes (set ignores an empty code,
\* so get("") returns None whatever was passed to set(""))
C5_GetReturnsSetValue ==
    (call.op = "get" /\ call.zip_code # EmptyStr)
        => \A j \in StandingSets(call.zip_code) : call.ret = setlog[j].coords

C5_Witness ==
    /\ call.op = "get"
    /\ call.zip_code # EmptyStr
    /\ \E j \in StandingSets(call.zip_code) : setlog[j].coords \in Coords
    /\ Len(setlog) = 2

(***************************************************************************)
(* C6: get returns the cached value when an entry exists and a distinct    *)
(* "no entry" signal otherwise, so that a negative entry and a code never  *)
(* looked up give different results.                                       *)
(***************************************************************************)
\* C6 as stated
C6_GetDistinguishesNegativeFromAbsent ==
    \A a \in Codes, b \in Codes :
        (NegativeEntry(cache, a) /\ ~has(cache, b)) => get(cache, a) # get(cache, b)

\* what the history of the instance says about a code: the value of the
\* last set() for its normalized form, else the value the constructor loaded
SetsFor(zip_code) ==
    {j \in DOMAIN setlog : /\ setlog[j].zip_code # EmptyStr
                           /\ Normalized(setlog[j].zip_code) = Normalized(zip_code)}
Last(S) == CHOOSE j \in S : \A k \in S : k <= j
EverEntered(zip_code) ==
    /\ zip_code # EmptyStr
    /\ (SetsFor(zip_code) # {} \/ Normalized(zip_code) \in Keys(cache0))
EnteredValue(zip_code) ==
    IF SetsFor(zip_code) # {} THEN setlog[Last(SetsFor(zip_code))].coords
    ELSE Lookup(cache0, Normalized(zip_code))

\* C6 amended: get returns the cached value when an entry exists and None
\* otherwise, so a negative entry and a code never looked up both give None;
\* has tells them apart (true for every entry, negative ones included)
C6_GetAndHas ==
    /\ call.op = "get"
         => call.ret = IF EverEntered(call.zip_code)
                       THEN EnteredValue(call.zip_code) ELSE None
    /\ call.op = "has" => call.ret = EverEntered(call.zip_code)

C6_Witness ==
    /\ call.op = "has"
    /\ call.ret = TRUE
    /\ get(cache, call.zip_code) = None
    /\ \E b \in Codes : b # EmptyStr /\ ~has(cache, b) /\ get(cache, b) = None

(***************************************************************************)
(* C7: within one run a cache entry, once present, is never overwritten.   *)
(***************************************************************************)
C7_EntryNeverOverwritten ==
    [][\A k \in Keys(cache) :
          k \in Keys(cache') /\ Lookup(cache', k) = Lookup(cache, k)]_vars

\* two different candidates with the same first 5 characters were processed
\* and their entry was written during the run
C7_Witness ==
    /\ pc = "done"
    /\ i = Len(zips_to_process)
    /\ \E a \in 1..i, b \in 1..i :
         /\ a < b
         /\ zips_to_process[a] # zips_to_process[b]
         /\ Normalized(zips_to_process[a]) = Normalized(zips_to_process[b])
         /\ Normalized(zips_to_process[a]) \in Keys(cache) \ Keys(cache0)

(***************************************************************************)
(* C8: no network request is retried: at most one request per lookup       *)
(* attempt, at most one per normalized code in a run, and none for a code  *)
(* that had a cache entry.                                                 *)
(***************************************************************************)
C8_NoRetry ==
    /\ from_api = Len(fetchlog)
    /\ \A j \in DOMAIN fetchlog :
         fetchlog[j].request # None
            => /\ fetchlog[j].request \notin Keys(cache0)
               /\ \A k \in DOMAIN fetchlog :
                    k # j => fetchlog[k].request # fetchlog[j].request

\* a code was requested and two candidates of the run normalize to it
C8_Witness ==
    /\ pc = "done"
    /\ \E j \in DOMAIN fetchlog, a \in 1..i, b \in 1..i :
         /\ a < b
         /\ fetchlog[j].request = Normalized(zips_to_process[a])
         /\ fetchlog[j].request = Normalized(zips_to_process[b])

(***************************************************************************)
(* C9: a candidate whose first 5 characters are not exactly 5 digits never *)
(* has a cache key written for it and never triggers a network call.       *)
(***************************************************************************)
C9_InvalidNeverCachedNorRequested ==
    \A j \in Processed :
        ~ValidCode(zips_to_process[j])
            => /\ Normalized(zips_to_process[j]) \notin Keys(cache) \ Keys(cache0)
               /\ Requests(Normalized(zips_to_process[j])) = 0

(***************************************************************************)
(* C10: every key of the in-memory cache is exactly 5 characters long.     *)
(***************************************************************************)
C10_KeysAreFiveCharacters ==
    \A k \in Keys(cache) : Len(k) = 5

(***************************************************************************)
(* C11: save() followed by load() in a fresh ZipCache on the same file     *)
(* reconstructs the mapping: the same keys, the same coordinate for each   *)
(* positive entry, a negative entry for each negative entry.               *)
(***************************************************************************)
SameMapping(a, b) ==
    /\ Keys(a) = Keys(b)
    /\ \A k \in Keys(a) : Lookup(a, k) = Lookup(b, k)

\* in every state, a fresh instance constructed on the file that save()
\* writes for the current cache holds the mapping of the current cache
C11_RoundTrip ==
    /\ SameMapping(load(EmptyDict, save(cache)), cache)
    /\ \A zip_code \in Codes :
         /\ has(load(EmptyDict, save(cache)), zip_code) = has(cache, zip_code)
         /\ get(load(EmptyDict, save(cache)), zip_code) = get(cache, zip_code)

\* a fresh instance was constructed on a file that save() wrote (the file is
\* none of the initial ones) and holds a positive and a negative entry
C11_Witness ==
    /\ call.op = "init"
    /\ file \notin Files
    /\ file = save(cache)
    /\ \E k \in Keys(cache) : Lookup(cache, k) \in Coords
    /\ \E k \in Keys(cache) : Lookup(cache, k) = None

(***************************************************************************)
(* C12: load on a missing or malformed backing file (not JSON, not a       *)
(* mapping, or a mapping with a value that is neither a coordinate record  *)
(* nor null, wherever it occurs) leaves the cache empty.                   *)
(***************************************************************************)
IsCoordRecord(v) == v.t = "obj" /\ Keys(v.o) = {"lat", "lng"}

Malformed(f) ==
    \/ ~f.exists
    \/ f.data.t # "obj"
    \/ \E j \in DOMAIN f.data.o :
         ~IsCoordRecord(f.data.o[j][2]) /\ f.data.o[j][2] # JNull

\* the instance is as its constructor left it
FreshInstance == call.op \in {"none", "init"}

C12_MalformedFileLeavesCacheEmpty ==
    (FreshInstance /\ Malformed(file)) => cache = EmptyDict

(***************************************************************************)
(* C13: when the first of two consecutive runs completed and persisted the *)
(* cache, the second run issues no network request for a postal code that  *)
(* was looked up in the first run, unresolved codes included.              *)
(***************************************************************************)
FirstRunPersisted == earlier # <<>> /\ earlier[1].saved

C13_NoRequestForCodesOfFirstRun ==
    FirstRunPersisted
        => \A a \in DOMAIN earlier[1].fetchlog, b \in DOMAIN fetchlog :
              fetchlog[b].request # Normalized(earlier[1].fetchlog[a].zip_code)

\* the second run has processed a candidate that the first run requested
\* from the service without result
C13_Witness ==
    /\ FirstRunPersisted
    /\ pc = "done"
    /\ \E a \in DOMAIN earlier[1].fetchlog, j \in 1..i :
         /\ earlier[1].fetchlog[a].request # None
         /\ earlier[1].fetchlog[a].ret = None
         /\ zips_to_process[j] = earlier[1].fetchlog[a].zip_code

(***************************************************************************)
(* C14: update_geolocation changes only rows whose postal code matches and *)
(* whose geolocation is unset, never a row whose geolocation is set; a     *)
(* second call with the same arguments returns 0 and changes nothing.      *)
(***************************************************************************)
C14_UpdateOnlyUnsetRowsOnce ==
    call.op = "update"
        => /\ DOMAIN table = DOMAIN call.before
           /\ \A r \in DOMAIN table :
                /\ table[r].ZipCode = call.before[r].ZipCode
                /\ table[r] # call.before[r]
                     => /\ call.before[r].ZipCode = call.zip_code
                        /\ call.before[r].GeoLocation = None
                        /\ table[r].GeoLocation = call.coords
                /\ call.before[r].GeoLocation # None => table[r] = call.before[r]
           /\ call.ret = Cardinality({r \in DOMAIN table : table[r] # call.before[r]})
           /\ LET again == update_geolocation(table, call.zip_code,
                                              call.coords[1], call.coords[2])
              IN  again.rowcount = 0 /\ again.table = table

\* a call has set the point on one row and left alone another row with the
\* same postal code whose point was already set to something else
C14_Witness ==
    /\ call.op = "update"
    /\ call.ret > 0
    /\ \E r \in DOMAIN table :
         /\ call.before[r].ZipCode = call.zip_code
         /\ call.before[r].GeoLocation # None
         /\ call.before[r].GeoLocation # call.coords

(***************************************************************************)
(* C15: every connection and cursor a run acquires is released before the  *)
(* run ends, on every path.                                                *)
(***************************************************************************)
C15_NoOpenConnectionAtExit ==
    pc = "done" => (conn # "open" /\ cursor # "open")

(***************************************************************************)
(* C16: the cache is persisted only after the commit of the run has        *)
(* succeeded, and every update_geolocation call of the run precedes the    *)
(* commit.                                                                 *)
(***************************************************************************)
C16_UpdatesThenCommitThenSave ==
    [][ /\ (saved' /\ ~saved) => committed
        /\ (committed' /\ ~committed) => ~saved
        /\ updlog' # updlog => (~committed /\ ~committed' /\ ~saved) ]_vars

C16_Witness ==
    /\ pc = "done"
    /\ saved
    /\ committed
    /\ Len(updlog) >= 2

(***************************************************************************)
(* C17: a lookup failure for one postal code never aborts the run: the     *)
(* fetch returns None, a negative cache entry is recorded for the code and *)
(* the loop goes on to the next candidate, so that the loop ends only when *)
(* every candidate has been processed.                                     *)
(***************************************************************************)
C17_LookupFailureDoesNotAbort ==
    [][ /\ (pc = "resolve" /\ fetchlog' # fetchlog /\ fetchlog'[Len(fetchlog')].failed)
            => /\ fetchlog'[Len(fetchlog')].ret = None
               /\ coords' = None
               /\ Normalized(zips_to_process[i + 1]) \in Keys(cache')
               /\ Lookup(cache', Normalized(zips_to_process[i + 1])) = None
               /\ pc' = "apply"
               /\ ~raised'
        /\ (pc = "apply" /\ coords = None)
            => /\ ~raised'
               /\ i' = i + 1
               /\ pc' = IF i' < Len(zips_to_process) THEN "resolve" ELSE "commit"
        /\ pc = "commit" => i = Len(zips_to_process) ]_vars

\* the lookup of the first candidate failed and the run went on to process
\* all three candidates and to complete
C17_Witness ==
    /\ pc = "done"
    /\ saved
    /\ Len(zips_to_process) = 3
    /\ i = 3
    /\ fetchlog # <<>>
    /\ fetchlog[1].failed
    /\ fetchlog[1].zip_code = zips_to_process[1]

(***************************************************************************)
(* C18: a run whose discovery returns an empty list ends without entering  *)
(* the loop: no lookup, no store write, no row updated, and the cache, in  *)
(* memory and on file, as it was loaded.                                   *)
(***************************************************************************)
C18_EmptyDiscoveryChangesNothing ==
    zips_to_process = <<>>
        => /\ pc \notin {"resolve", "apply", "commit", "save"}
           /\ fetchlog = <<>>
           /\ from_api = 0
           /\ updlog = <<>>
           /\ updated_total = 0
           /\ cache = cache0
           /\ ~committed
           /\ ~saved

\* the run has ended by the return of line 262: the discovery succeeded
\* with an empty list, on a cache that was loaded with entries
C18_Witness ==
    /\ pc = "done"
    /\ zips_to_process = <<>>
    /\ ~raised
    /\ cursor = "closed"
    /\ conn = "closed"
    /\ cache # EmptyDict

(***************************************************************************)
(* C19: after each iteration of the loop found + not_found is the number   *)
(* of candidates processed, each candidate is counted in exactly one of    *)
(* the two, from_cache + from_api does not exceed that number, and at the  *)
(* end of the loop found + not_found is the number of candidates.          *)
(***************************************************************************)
C19_Statistics ==
    [][ /\ found + not_found = i
        /\ from_cache + from_api <= i + 1
        /\ pc \in {"resolve", "commit", "save"} => from_cache + from_api <= i
        /\ pc \in {"commit", "save"} => found + not_found = Len(zips_to_process)
        /\ i' = i + 1
            => \/ (found' = found + 1 /\ not_found' = not_found)
               \/ (found' = found /\ not_found' = not_found + 1) ]_vars

\* a completed run over three candidates, one found, one not found, one of
\* them answered by a negative cache entry (counted in neither from_cache
\* nor from_api)
C19_Witness ==
    /\ pc = "done"
    /\ saved
    /\ i = 3
    /\ found >= 1
    /\ not_found >= 1
    /\ from_cache + from_api < i

(***************************************************************************)
(* C20: whenever update_geolocation(zip, lat, lng) is called the cache     *)
(* holds the positive entry (lat, lng) under the first 5 characters of     *)
(* zip, and at the end of the loop every candidate with a non-empty code   *)
(* has a cache entry under its first 5 characters.                         *)
(***************************************************************************)
C20_StoreWritesAgreeWithCache ==
    [][ /\ updlog' # updlog
            => LET u == updlog'[Len(updlog')]
               IN  /\ Normalized(u.zip_code) \in Keys(cache)
                   /\ Lookup(cache, Normalized(u.zip_code)) = <<u.lat, u.lng>>
                   /\ cache' = cache
        /\ pc \in {"commit", "save"}
            => \A j \in DOMAIN zips_to_process :
                  zips_to_process[j] # EmptyStr
                     => Normalized(zips_to_process[j]) \in Keys(cache) ]_vars

\* a completed run that wrote the store for a candidate longer than 5
\* characters and also met an empty candidate
C20_Witness ==
    /\ pc = "done"
    /\ saved
    /\ \E j \in DOMAIN updlog : Len(updlog[j].zip_code) > 5
    /\ \E j \in DOMAIN zips_to_process : zips_to_process[j] = EmptyStr

====
